---- MODULE Spec2Model ----
(***************************************************************************)
(* Scanzy theme system: the ThemeProvider preference resolver              *)
(* (contexts/ThemeContext) over AsyncStorage, and the theme catalogue      *)
(* (constants/Colors).                                                     *)
(*                                                                         *)
(* JavaScript values that may be non-boolean at run time (the isDark hook  *)
(* state, the isDark member of a parsed record) are modelled as the        *)
(* strings "true", "false" and "undefined".                                *)
(***************************************************************************)
EXTENDS Integers, Sequences, FiniteSets, TLC

VARIABLES
    systemColorScheme,  \* what useColorScheme() reports now
    mountScheme,        \* systemColorScheme as captured by the first render's closures
    isDark,             \* the isDark state hook: the value the next render will see
    isLoading,          \* the isLoading state hook
    contextValue,       \* the context value built by the latest render
    pc,                 \* loadThemePreference: "getItem" while awaiting the read, then "done"
    storedPreference,   \* what the awaited getItem produced
    store,              \* AsyncStorage: key -> stored string (or null)
    writes,             \* the setItem calls issued so far, in issue order
    landed,             \* indices of the writes the store has applied, in landing order
    warnings,           \* console.warn calls, in order
    getItemCalls,       \* number of getItem calls issued
    toggleCalls,        \* number of toggleTheme calls made
    mount,              \* the provider instance: its number, and the toggles made and
                        \* writes landed when it mounted
    call                \* a ThemeUtils call: function, arguments, result

vars == << systemColorScheme, mountScheme, isDark, isLoading, contextValue, pc,
           storedPreference, store, writes, landed, warnings, getItemCalls,
           toggleCalls, mount, call >>

----------------------------------------------------------------------------
(* Bounds *)

MaxToggles == 3

MaxMounts == 2

\* Toggles in the executions checked for liveness.
MaxFairToggles == 2

----------------------------------------------------------------------------
(* constants/Colors: the two themes.  A colour string "#RRGGBB" is the     *)
(* sequence of its seven characters.                                       *)

Hex(a, b, c, d, e, f) == << "#", a, b, c, d, e, f >>

\* Variant: the light theme keeps the neon mint accent of the dark theme.
lightThemeNeonAccent ==
    [ name |-> "light",
      colors |->
        [ primary        |-> Hex("3", "F", "5", "1", "B", "5"),
          accent         |-> Hex("6", "4", "F", "F", "D", "A"),
          background     |-> Hex("F", "3", "F", "7", "F", "A"),
          surface        |-> Hex("F", "F", "F", "F", "F", "F"),
          text           |-> Hex("1", "A", "1", "A", "1", "A"),
          textSecondary  |-> Hex("6", "6", "6", "6", "6", "6"),
          border         |-> Hex("E", "0", "E", "0", "E", "0"),
          success        |-> Hex("4", "C", "A", "F", "5", "0"),
          warning        |-> Hex("F", "F", "9", "8", "0", "0"),
          error          |-> Hex("F", "4", "4", "3", "3", "6"),
          tint           |-> Hex("3", "F", "5", "1", "B", "5"),
          icon           |-> Hex("6", "6", "6", "6", "6", "6"),
          tabIconDefault |-> Hex("6", "6", "6", "6", "6", "6"),
          tabIconSelected |-> Hex("3", "F", "5", "1", "B", "5") ] ]

lightTheme ==
    [ name |-> "light",
      colors |->
        [ primary        |-> Hex("3", "F", "5", "1", "B", "5"),
          accent         |-> Hex("0", "0", "6", "9", "5", "C"),
          background     |-> Hex("F", "3", "F", "7", "F", "A"),
          surface        |-> Hex("F", "F", "F", "F", "F", "F"),
          text           |-> Hex("1", "A", "1", "A", "1", "A"),
          textSecondary  |-> Hex("6", "6", "6", "6", "6", "6"),
          border         |-> Hex("E", "0", "E", "0", "E", "0"),
          success        |-> Hex("4", "C", "A", "F", "5", "0"),
          warning        |-> Hex("F", "F", "9", "8", "0", "0"),
          error          |-> Hex("F", "4", "4", "3", "3", "6"),
          tint           |-> Hex("3", "F", "5", "1", "B", "5"),
          icon           |-> Hex("6", "6", "6", "6", "6", "6"),
          tabIconDefault |-> Hex("6", "6", "6", "6", "6", "6"),
          tabIconSelected |-> Hex("3", "F", "5", "1", "B", "5") ] ]

darkTheme ==
    [ name |-> "dark",
      colors |->
        [ primary        |-> Hex("7", "9", "8", "6", "C", "B"),
          accent         |-> Hex("6", "4", "F", "F", "D", "A"),
          background     |-> Hex("1", "2", "1", "2", "1", "2"),
          surface        |-> Hex("1", "E", "1", "E", "1", "E"),
          text           |-> Hex("F", "F", "F", "F", "F", "F"),
          textSecondary  |-> Hex("B", "0", "B", "0", "B", "0"),
          border         |-> Hex("3", "3", "3", "3", "3", "3"),
          success        |-> Hex("4", "C", "A", "F", "5", "0"),
          warning        |-> Hex("F", "F", "9", "8", "0", "0"),
          error          |-> Hex("F", "4", "4", "3", "3", "6"),
          tint           |-> Hex("F", "F", "F", "F", "F", "F"),
          icon           |-> Hex("B", "0", "B", "0", "B", "0"),
          tabIconDefault |-> Hex("B", "0", "B", "0", "B", "0"),
          tabIconSelected |-> Hex("F", "F", "F", "F", "F", "F") ] ]

----------------------------------------------------------------------------
(* constants/Colors: ThemeUtils *)

LowerDigits == << "0", "1", "2", "3", "4", "5", "6", "7", "8", "9",
                  "a", "b", "c", "d", "e", "f" >>

UpperDigits == << "0", "1", "2", "3", "4", "5", "6", "7", "8", "9",
                  "A", "B", "C", "D", "E", "F" >>

\* The value of one hex digit, in either case, as parseInt(_, 16) reads it.
DigitValue(ch) ==
    (CHOOSE i \in 1..16 : LowerDigits[i] = ch \/ UpperDigits[i] = ch) - 1

\* parseInt(text, 16) of a string of hex digits.
RECURSIVE ParseInt16(_)
ParseInt16(text) ==
    IF text = << >> THEN 0
    ELSE 16 * ParseInt16(SubSeq(text, 1, Len(text) - 1)) + DigitValue(text[Len(text)])

\* n.toString(16) for n >= 0: lower-case digits, no padding.
RECURSIVE ToString16(_)
ToString16(n) ==
    IF n < 16 THEN << LowerDigits[n + 1] >>
    ELSE ToString16(n \div 16) \o << LowerDigits[(n % 16) + 1] >>

\* text.padStart(2, '0')
PadStart2(text) == IF Len(text) < 2 THEN << "0" >> \o text ELSE text

\* text.toUpperCase() of a string of hex digits
ToUpperCase(text) == [ k \in 1..Len(text) |-> UpperDigits[DigitValue(text[k]) + 1] ]

\* The integer nearest to n/d (d > 0), a tie going up: Math.round of an
\* exactly representable quotient.
RoundHalfUp(n, d) == (2 * n + d) \div (2 * d)

(* Math.round(2.55 * percent) in IEEE-754 double arithmetic, for an        *)
(* integer percent.  The double nearest 2.55 lies below 2.55; the rounded  *)
(* product differs from 2.55 x percent by far less than the distance to    *)
(* the nearest tie, except where 2.55 x percent is itself a tie            *)
(* (|percent| in 10, 30, 50, 70, 90): there 2.55 * 50 is                   *)
(* 127.49999999999999 and 2.55 * 90 is 229.49999999999997, which round     *)
(* down, and the other products are the tie exactly or lie on its upper    *)
(* side.                                                                   *)
ProductBelowTie == { 50, 90 }

MathRound255(percent) ==
    RoundHalfUp(255 * percent, 100) - (IF percent \in ProductBelowTie THEN 1 ELSE 0)

\* (R < 255 ? R < 1 ? 0 : R : 255)
ClampChannel(v) == IF v < 255 THEN (IF v < 1 THEN 0 ELSE v) ELSE 255

\* ThemeUtils.adjustBrightness
AdjustBrightness(hex, percent) ==
    LET num == ParseInt16(Tail(hex))
        amt == MathRound255(percent)
        R == (num \div 65536) + amt
        G == ((num \div 256) % 256) + amt
        B == (num % 256) + amt
    IN  << "#" >> \o Tail(ToString16(16777216 + ClampChannel(R) * 65536
                                     + ClampChannel(G) * 256 + ClampChannel(B)))

\* Variant: the alpha digits are not padded.
AddAlphaUnpadded(hex, alpha100) ==
    hex \o ToUpperCase(ToString16(RoundHalfUp(255 * alpha100, 100)))

(* ThemeUtils.addAlpha, for alpha = alpha100 / 100.  At every such alpha   *)
(* the double product alpha * 255 rounds as the exact product does.        *)
AddAlpha(hex, alpha100) ==
    hex \o ToUpperCase(PadStart2(ToString16(RoundHalfUp(255 * alpha100, 100))))

(* The sRGB-to-linear transform of getLuminance, tabulated: entry c + 1 is *)
(* 10^4 x (v <= 0.03928 ? v / 12.92 : ((v + 0.055) / 1.055)^2.4) for       *)
(* v = c / 255, to the nearest integer.                                    *)
SRGBLinear ==
    <<
           0,     3,     6,     9,    12,    15,    18,    21,    24,    27,    30,    33,    37,    40,    44,    48,
          52,    56,    60,    65,    70,    75,    80,    86,    91,    97,   103,   110,   116,   123,   130,   137,
         144,   152,   160,   168,   176,   185,   194,   203,   212,   222,   232,   242,   252,   262,   273,   284,
         296,   307,   319,   331,   343,   356,   369,   382,   395,   409,   423,   437,   452,   467,   482,   497,
         513,   529,   545,   561,   578,   595,   612,   630,   648,   666,   685,   704,   723,   742,   762,   782,
         802,   823,   844,   865,   887,   908,   931,   953,   976,   999,  1022,  1046,  1070,  1095,  1119,  1144,
        1170,  1195,  1221,  1248,  1274,  1301,  1329,  1356,  1384,  1413,  1441,  1470,  1500,  1529,  1559,  1590,
        1620,  1651,  1683,  1714,  1746,  1779,  1812,  1845,  1878,  1912,  1946,  1981,  2016,  2051,  2086,  2122,
        2159,  2195,  2232,  2270,  2307,  2346,  2384,  2423,  2462,  2502,  2542,  2582,  2623,  2664,  2705,  2747,
        2789,  2831,  2874,  2918,  2961,  3005,  3050,  3095,  3140,  3185,  3231,  3278,  3325,  3372,  3419,  3467,
        3515,  3564,  3613,  3663,  3712,  3763,  3813,  3864,  3916,  3968,  4020,  4072,  4125,  4179,  4233,  4287,
        4342,  4397,  4452,  4508,  4564,  4621,  4678,  4735,  4793,  4851,  4910,  4969,  5029,  5089,  5149,  5210,
        5271,  5333,  5395,  5457,  5520,  5583,  5647,  5711,  5776,  5841,  5906,  5972,  6038,  6105,  6172,  6240,
        6308,  6376,  6445,  6514,  6584,  6654,  6724,  6795,  6867,  6939,  7011,  7084,  7157,  7231,  7305,  7379,
        7454,  7529,  7605,  7682,  7758,  7835,  7913,  7991,  8070,  8148,  8228,  8308,  8388,  8469,  8550,  8632,
        8714,  8796,  8879,  8963,  9047,  9131,  9216,  9301,  9387,  9473,  9560,  9647,  9734,  9823,  9911, 10000
    >>

\* getLuminance, in units of 10^-8.
GetLuminance(hex) ==
    LET rgb == ParseInt16(Tail(hex))
        r == (rgb \div 65536) % 256
        g == (rgb \div 256) % 256
        b == rgb % 256
    IN  2126 * SRGBLinear[r + 1] + 7152 * SRGBLinear[g + 1] + 722 * SRGBLinear[b + 1]

Max(a, b) == IF a >= b THEN a ELSE b

Min(a, b) == IF a <= b THEN a ELSE b

\* Variant: the first colour is taken for the brighter one.
GetContrastRatioOrdered(color1, color2) ==
    [ num |-> GetLuminance(color1) + 5000000, den |-> GetLuminance(color2) + 5000000 ]

\* ThemeUtils.getContrastRatio: the quotient num / den, both in units of 10^-8.
GetContrastRatio(color1, color2) ==
    LET lum1 == GetLuminance(color1)
        lum2 == GetLuminance(color2)
    IN  [ num |-> Max(lum1, lum2) + 5000000, den |-> Min(lum1, lum2) + 5000000 ]

\* ThemeUtils.meetsAccessibilityStandards: ratio >= 4.5
MeetsAccessibilityStandards(foreground, background) ==
    LET ratio == GetContrastRatio(foreground, background)
    IN  2 * ratio.num >= 9 * ratio.den

\* Variant: secondary text is left out of the aggregate.
ValidateThemeAccessibilityFourPairs(theme) ==
    LET results ==
          [ textOnBackground |->
                MeetsAccessibilityStandards(theme.colors.text, theme.colors.background),
            textOnSurface |->
                MeetsAccessibilityStandards(theme.colors.text, theme.colors.surface),
            primaryOnBackground |->
                MeetsAccessibilityStandards(theme.colors.primary, theme.colors.background),
            accentOnBackground |->
                MeetsAccessibilityStandards(theme.colors.accent, theme.colors.background),
            textSecondaryOnBackground |->
                MeetsAccessibilityStandards(theme.colors.textSecondary, theme.colors.background) ]
    IN  results @@ [ allValid |-> /\ results.textOnBackground
                                  /\ results.textOnSurface
                                  /\ results.primaryOnBackground
                                  /\ results.accentOnBackground ]

\* ThemeUtils.validateThemeAccessibility: the five results, and allValid
ValidateThemeAccessibility(theme) ==
    LET results ==
          [ textOnBackground |->
                MeetsAccessibilityStandards(theme.colors.text, theme.colors.background),
            textOnSurface |->
                MeetsAccessibilityStandards(theme.colors.text, theme.colors.surface),
            primaryOnBackground |->
                MeetsAccessibilityStandards(theme.colors.primary, theme.colors.background),
            accentOnBackground |->
                MeetsAccessibilityStandards(theme.colors.accent, theme.colors.background),
            textSecondaryOnBackground |->
                MeetsAccessibilityStandards(theme.colors.textSecondary, theme.colors.background) ]
    IN  results @@ [ allValid |-> \A name \in DOMAIN results : results[name] ]

----------------------------------------------------------------------------
(* contexts/ThemeContext: values *)

THEME_STORAGE_KEY == "@scanzy_theme_preference"

\* The keys of the external store; only THEME_STORAGE_KEY belongs to this feature.
StorageKeys == { THEME_STORAGE_KEY, "@scanzy_other" }

\* JavaScript truthiness and negation over the modelled values.
Truthy(v) == v = "true"

JsNot(v) == IF Truthy(v) THEN "false" ELSE "true"

\* Variant: an unknown platform signal counts as dark.
IsDarkSchemeUnknownDark(scheme) == IF scheme # "light" THEN "true" ELSE "false"

\* systemColorScheme === 'dark'
IsDarkScheme(scheme) == IF scheme = "dark" THEN "true" ELSE "false"

ColorSchemes == { "light", "dark", "null" }

(* A stored string, by what JSON.parse and the truthiness test make of it: *)
(*   null      getItem found no value                                      *)
(*   empty     the empty string                                            *)
(*   garbage   text that is not JSON                                       *)
(*   jsonnull  the JSON text null                                          *)
(*   object    a JSON object; isDark is "true", "false" or "absent";       *)
(*             lastUpdated is an ISO string (its instant) or -1 if absent; *)
(*             extra says whether further fields are present               *)
Stored(kind, dark, updated, extra) ==
    [ kind |-> kind, isDark |-> dark, lastUpdated |-> updated, extra |-> extra ]

Null == Stored("null", "absent", -1, FALSE)

Rejected == Stored("rejected", "absent", -1, FALSE)

InitialStored ==
    { Null,
      Stored("empty", "absent", -1, FALSE),
      Stored("garbage", "absent", -1, FALSE),
      Stored("jsonnull", "absent", -1, FALSE) }
    \cup { Stored("object", d, 0, x) : d \in { "true", "false", "absent" }, x \in BOOLEAN }

\* JSON.stringify({isDark, lastUpdated: Date}): a Date becomes its ISO string,
\* an undefined member is omitted.
JSONstringify(preference) ==
    Stored("object",
           IF preference.isDark \in { "true", "false" } THEN preference.isDark ELSE "absent",
           preference.lastUpdated, FALSE)

\* JSON.parse(text) followed by the read of .isDark: throws on text that is
\* not JSON and on the value null; a missing member reads as undefined.
ParseThrows(text) == text.kind \in { "empty", "garbage", "jsonnull" }

\* Variant: any stored object counts as a dark preference.
ParsedIsDarkAnyObject(text) == "true"

ParsedIsDark(text) == IF text.isDark = "absent" THEN "undefined" ELSE text.isDark

\* const theme = isDark ? darkTheme : lightTheme, and the context value
BuildContext(dark, loading) ==
    [ theme |-> IF Truthy(dark) THEN darkTheme ELSE lightTheme,
      isDark |-> dark,
      isLoading |-> loading ]

\* The first provider instance of the process, and no ThemeUtils call.
FirstMount == [ count |-> 1, toggleCalls |-> 0, landed |-> 0 ]

NoCall == [ fn |-> "none", args |-> << >>, result |-> << >>, done |-> TRUE ]

----------------------------------------------------------------------------
(* Initial state: the provider has mounted (first render committed, the    *)
(* mount effect has called loadThemePreference, which awaits getItem).     *)

Init ==
    /\ systemColorScheme \in ColorSchemes
    /\ mountScheme = systemColorScheme
    /\ isDark = IsDarkScheme(systemColorScheme)
    /\ isLoading = TRUE
    /\ contextValue = BuildContext(isDark, isLoading)
    /\ pc = "getItem"
    /\ storedPreference = Null
    /\ \E s \in InitialStored :
          store = [ k \in StorageKeys |-> IF k = THEME_STORAGE_KEY THEN s ELSE Null ]
    /\ writes = << >>
    /\ landed = << >>
    /\ warnings = << >>
    /\ getItemCalls = 1
    /\ toggleCalls = 0
    /\ mount = FirstMount
    /\ call = NoCall

----------------------------------------------------------------------------
(* Actions *)

\* Variant: the theme is computed once and kept across renders.
RenderCachedTheme ==
    /\ contextValue # BuildContext(isDark, isLoading)
    /\ contextValue' = [ BuildContext(isDark, isLoading) EXCEPT !.theme = contextValue.theme ]
    /\ UNCHANGED << systemColorScheme, mountScheme, isDark, isLoading, pc,
                    storedPreference, store, writes, landed, warnings, getItemCalls,
                    toggleCalls >>
    /\ UNCHANGED << mount, call >>

\* A re-render of ThemeProvider: the context value is rebuilt from the hooks.
Render ==
    /\ contextValue # BuildContext(isDark, isLoading)
    /\ contextValue' = BuildContext(isDark, isLoading)
    /\ UNCHANGED << systemColorScheme, mountScheme, isDark, isLoading, pc,
                    storedPreference, store, writes, landed, warnings, getItemCalls,
                    toggleCalls >>
    /\ UNCHANGED << mount, call >>

\* Variant: setIsLoading(false) only on the path that does not throw.
LoadThemePreferenceNoFinally(rejects) ==
    /\ pc = "getItem"
    /\ LET got == IF rejects THEN Rejected ELSE store[THEME_STORAGE_KEY]
           truthy == got.kind \notin { "null", "empty", "rejected" }
           throws == rejects \/ (truthy /\ ParseThrows(got))
       IN  /\ storedPreference' = got
           /\ isDark' = IF throws THEN IsDarkScheme(mountScheme)
                        ELSE IF truthy THEN ParsedIsDark(got)
                        ELSE IsDarkScheme(mountScheme)
           /\ warnings' = IF throws THEN Append(warnings, "load") ELSE warnings
           /\ isLoading' = IF throws THEN isLoading ELSE FALSE
    /\ pc' = "done"
    /\ UNCHANGED << systemColorScheme, mountScheme, contextValue, store, writes,
                    landed, getItemCalls, toggleCalls >>
    /\ UNCHANGED << mount, call >>

\* Variant: a rejected read is retried.
LoadThemePreferenceRetries(rejects) ==
    /\ pc = "getItem"
    /\ LET got == IF rejects THEN Rejected ELSE store[THEME_STORAGE_KEY]
           truthy == got.kind \notin { "null", "empty", "rejected" }
           throws == rejects \/ (truthy /\ ParseThrows(got))
       IN  /\ storedPreference' = got
           /\ isDark' = IF throws THEN IsDarkScheme(mountScheme)
                        ELSE IF truthy THEN ParsedIsDark(got)
                        ELSE IsDarkScheme(mountScheme)
           /\ warnings' = IF throws THEN Append(warnings, "load") ELSE warnings
    /\ isLoading' = IF rejects THEN isLoading ELSE FALSE
    /\ pc' = IF rejects THEN "getItem" ELSE "done"
    /\ getItemCalls' = IF rejects THEN getItemCalls + 1 ELSE getItemCalls
    /\ UNCHANGED << systemColorScheme, mountScheme, contextValue, store, writes,
                    landed, toggleCalls >>
    /\ UNCHANGED << mount, call >>

\* Variant: the fallback reads the platform signal as it is when the read
\* settles.
LoadThemePreferenceLiveSignal(rejects) ==
    /\ pc = "getItem"
    /\ LET got == IF rejects THEN Rejected ELSE store[THEME_STORAGE_KEY]
           truthy == got.kind \notin { "null", "empty", "rejected" }
           throws == rejects \/ (truthy /\ ParseThrows(got))
       IN  /\ storedPreference' = got
           /\ isDark' = IF throws THEN IsDarkScheme(systemColorScheme)
                        ELSE IF truthy THEN ParsedIsDark(got)
                        ELSE IsDarkScheme(systemColorScheme)
           /\ warnings' = IF throws THEN Append(warnings, "load") ELSE warnings
    /\ isLoading' = FALSE
    /\ pc' = "done"
    /\ UNCHANGED << systemColorScheme, mountScheme, contextValue, store, writes,
                    landed, getItemCalls, toggleCalls >>
    /\ UNCHANGED << mount, call >>

\* Variant: a load that finds no record saves the seeded preference.
LoadThemePreferencePersistsSeed(rejects) ==
    /\ pc = "getItem"
    /\ LET got == IF rejects THEN Rejected ELSE store[THEME_STORAGE_KEY]
           truthy == got.kind \notin { "null", "empty", "rejected" }
           throws == rejects \/ (truthy /\ ParseThrows(got))
           preference == [ isDark |-> IsDarkScheme(mountScheme), lastUpdated |-> 0 ]
       IN  /\ storedPreference' = got
           /\ isDark' = IF throws THEN IsDarkScheme(mountScheme)
                        ELSE IF truthy THEN ParsedIsDark(got)
                        ELSE IsDarkScheme(mountScheme)
           /\ warnings' = IF throws THEN Append(warnings, "load") ELSE warnings
           /\ store' = IF got = Null
                       THEN [ store EXCEPT ![THEME_STORAGE_KEY] = JSONstringify(preference) ]
                       ELSE store
    /\ isLoading' = FALSE
    /\ pc' = "done"
    /\ UNCHANGED << systemColorScheme, mountScheme, contextValue, writes,
                    landed, getItemCalls, toggleCalls >>
    /\ UNCHANGED << mount, call >>

\* loadThemePreference from the point where the awaited getItem settles:
\* it rejects, or resolves with the value under THEME_STORAGE_KEY.
LoadThemePreference(rejects) ==
    /\ pc = "getItem"
    /\ LET got == IF rejects THEN Rejected ELSE store[THEME_STORAGE_KEY]
           truthy == got.kind \notin { "null", "empty", "rejected" }
           throws == rejects \/ (truthy /\ ParseThrows(got))
       IN  /\ storedPreference' = got
           /\ isDark' = IF throws THEN IsDarkScheme(mountScheme)
                        ELSE IF truthy THEN ParsedIsDark(got)
                        ELSE IsDarkScheme(mountScheme)
           /\ warnings' = IF throws THEN Append(warnings, "load") ELSE warnings
    /\ isLoading' = FALSE
    /\ pc' = "done"
    /\ UNCHANGED << systemColorScheme, mountScheme, contextValue, store, writes,
                    landed, getItemCalls, toggleCalls >>
    /\ UNCHANGED << mount, call >>

\* Variant: a toggle made while a write is pending issues no write of its own.
ToggleThemeCoalesced ==
    /\ toggleCalls < MaxToggles
    /\ toggleCalls' = toggleCalls + 1
    /\ LET newIsDark == JsNot(contextValue.isDark)
           preference == [ isDark |-> newIsDark, lastUpdated |-> toggleCalls + 1 ]
       IN  /\ isDark' = newIsDark
           /\ writes' = IF \E i \in 1..Len(writes) : writes[i].status = "pending"
                        THEN writes
                        ELSE Append(writes,
                                 [ key |-> THEME_STORAGE_KEY,
                                   value |-> JSONstringify(preference),
                                   status |-> "pending" ])
    /\ UNCHANGED << systemColorScheme, mountScheme, isLoading, contextValue, pc,
                    storedPreference, store, landed, warnings, getItemCalls >>
    /\ UNCHANGED << mount, call >>

\* Variant: the provider shows loading while a save is under way.
ToggleThemeShowsLoading ==
    /\ toggleCalls < MaxToggles
    /\ toggleCalls' = toggleCalls + 1
    /\ LET newIsDark == JsNot(contextValue.isDark)
           preference == [ isDark |-> newIsDark, lastUpdated |-> toggleCalls + 1 ]
       IN  /\ isDark' = newIsDark
           /\ writes' = Append(writes,
                  [ key |-> THEME_STORAGE_KEY, value |-> JSONstringify(preference),
                    status |-> "pending" ])
    /\ isLoading' = TRUE
    /\ UNCHANGED << systemColorScheme, mountScheme, contextValue, pc,
                    storedPreference, store, landed, warnings, getItemCalls >>
    /\ UNCHANGED << mount, call >>

\* toggleTheme as the latest render closed over it, with saveThemePreference
\* up to its await: the setItem call is issued and left pending.
ToggleTheme ==
    /\ toggleCalls < MaxToggles
    /\ toggleCalls' = toggleCalls + 1
    /\ LET newIsDark == JsNot(contextValue.isDark)
           preference == [ isDark |-> newIsDark, lastUpdated |-> toggleCalls + 1 ]
       IN  /\ isDark' = newIsDark
           /\ writes' = Append(writes,
                  [ key |-> THEME_STORAGE_KEY, value |-> JSONstringify(preference),
                    status |-> "pending" ])
    /\ UNCHANGED << systemColorScheme, mountScheme, isLoading, contextValue, pc,
                    storedPreference, store, landed, warnings, getItemCalls >>
    /\ UNCHANGED << mount, call >>

\* Variant: once a record exists, later writes do not replace it.
SetItemResolvesKeepsFirst(i) ==
    /\ i \in 1..Len(writes)
    /\ writes[i].status = "pending"
    /\ store' = IF landed = << >>
                THEN [ store EXCEPT ![writes[i].key] = writes[i].value ]
                ELSE store
    /\ writes' = [ writes EXCEPT ![i].status = "resolved" ]
    /\ landed' = Append(landed, i)
    /\ UNCHANGED << systemColorScheme, mountScheme, isDark, isLoading, contextValue,
                    pc, storedPreference, warnings, getItemCalls, toggleCalls >>
    /\ UNCHANGED << mount, call >>

\* Variant: a write older than one already applied is discarded by the store.
SetItemResolvesNewestWins(i) ==
    /\ i \in 1..Len(writes)
    /\ writes[i].status = "pending"
    /\ store' = IF \A j \in 1..Len(landed) : landed[j] < i
                THEN [ store EXCEPT ![writes[i].key] = writes[i].value ]
                ELSE store
    /\ writes' = [ writes EXCEPT ![i].status = "resolved" ]
    /\ landed' = Append(landed, i)
    /\ UNCHANGED << systemColorScheme, mountScheme, isDark, isLoading, contextValue,
                    pc, storedPreference, warnings, getItemCalls, toggleCalls >>
    /\ UNCHANGED << mount, call >>

\* The store applies pending write i and its promise resolves.
SetItemResolves(i) ==
    /\ i \in 1..Len(writes)
    /\ writes[i].status = "pending"
    /\ store' = [ store EXCEPT ![writes[i].key] = writes[i].value ]
    /\ writes' = [ writes EXCEPT ![i].status = "resolved" ]
    /\ landed' = Append(landed, i)
    /\ UNCHANGED << systemColorScheme, mountScheme, isDark, isLoading, contextValue,
                    pc, storedPreference, warnings, getItemCalls, toggleCalls >>
    /\ UNCHANGED << mount, call >>

\* Variant: a failed write rolls the in-memory flag back.
SetItemRejectsRollsBack(i) ==
    /\ i \in 1..Len(writes)
    /\ writes[i].status = "pending"
    /\ writes' = [ writes EXCEPT ![i].status = "rejected" ]
    /\ warnings' = Append(warnings, "save")
    /\ isDark' = JsNot(isDark)
    /\ UNCHANGED << systemColorScheme, mountScheme, isLoading, contextValue,
                    pc, storedPreference, store, landed, getItemCalls, toggleCalls >>
    /\ UNCHANGED << mount, call >>

\* Pending write i fails: saveThemePreference's catch logs and returns.
SetItemRejects(i) ==
    /\ i \in 1..Len(writes)
    /\ writes[i].status = "pending"
    /\ writes' = [ writes EXCEPT ![i].status = "rejected" ]
    /\ warnings' = Append(warnings, "save")
    /\ UNCHANGED << systemColorScheme, mountScheme, isDark, isLoading, contextValue,
                    pc, storedPreference, store, landed, getItemCalls, toggleCalls >>
    /\ UNCHANGED << mount, call >>

\* The platform reports another colour scheme.
ColorSchemeChanges(scheme) ==
    /\ scheme # systemColorScheme
    /\ systemColorScheme' = scheme
    /\ UNCHANGED << mountScheme, isDark, isLoading, contextValue, pc, storedPreference,
                    store, writes, landed, warnings, getItemCalls,
                    toggleCalls >>
    /\ UNCHANGED << mount, call >>

Next ==
    \/ Render
    \/ \E rejects \in BOOLEAN : LoadThemePreference(rejects)
    \/ ToggleTheme
    \/ \E i \in 1..MaxToggles : SetItemResolves(i)
    \/ \E i \in 1..MaxToggles : SetItemRejects(i)
    \/ \E scheme \in ColorSchemes : ColorSchemeChanges(scheme)

Spec == Init /\ [][Next]_vars

\* The store's read eventually returns and the continuation runs; a state
\* update is eventually followed by a render.
\* toggleTheme, in the executions checked for liveness.
ToggleThemeFair == toggleCalls < MaxFairToggles /\ ToggleTheme

NextFair ==
    \/ Render
    \/ \E rejects \in BOOLEAN : LoadThemePreference(rejects)
    \/ ToggleThemeFair
    \/ \E i \in 1..MaxFairToggles : SetItemResolves(i)
    \/ \E i \in 1..MaxFairToggles : SetItemRejects(i)
    \/ \E scheme \in ColorSchemes : ColorSchemeChanges(scheme)

FairSpec ==
    /\ Init /\ [][NextFair]_vars
    /\ WF_vars(\E rejects \in BOOLEAN : LoadThemePreference(rejects))
    /\ WF_vars(Render)

----------------------------------------------------------------------------
(* The process ends and a new one starts: a new ThemeProvider mounts over  *)
(* the same store, seeded by the platform signal of that moment.  Taken    *)
(* once the writes of the old process have settled.                        *)

Restart(scheme) ==
    /\ mount.count < MaxMounts
    /\ \A i \in 1..Len(writes) : writes[i].status # "pending"
    /\ systemColorScheme' = scheme
    /\ mountScheme' = scheme
    /\ isDark' = IsDarkScheme(scheme)
    /\ isLoading' = TRUE
    /\ contextValue' = BuildContext(isDark', isLoading')
    /\ pc' = "getItem"
    /\ storedPreference' = Null
    /\ getItemCalls' = getItemCalls + 1
    /\ mount' = [ count |-> mount.count + 1, toggleCalls |-> toggleCalls,
                  landed |-> Len(landed) ]
    /\ warnings' = << >>
    /\ UNCHANGED << store, writes, landed, toggleCalls, call >>

NextRestart ==
    \/ Render
    \/ \E rejects \in BOOLEAN : LoadThemePreference(rejects)
    \/ ToggleTheme
    \/ \E i \in 1..MaxToggles : SetItemResolves(i)
    \/ \E i \in 1..MaxToggles : SetItemRejects(i)
    \/ \E scheme \in ColorSchemes : Restart(scheme)

SpecRestart == Init /\ [][NextRestart]_vars

----------------------------------------------------------------------------
(* ThemeUtils calls: the arguments are drawn at the start, the call then   *)
(* computes its result.  The provider plays no part.                       *)

resolverVars == << systemColorScheme, mountScheme, isDark, isLoading, contextValue, pc,
                   storedPreference, store, writes, landed, warnings, getItemCalls,
                   toggleCalls, mount >>

ChannelSamples == { 0, 1, 128, 254, 255 }

FormatColor(r, g, b, digits) ==
    << "#", digits[(r \div 16) + 1], digits[(r % 16) + 1],
            digits[(g \div 16) + 1], digits[(g % 16) + 1],
            digits[(b \div 16) + 1], digits[(b % 16) + 1] >>

SampleColors ==
    { FormatColor(r, g, b, digits) :
        r \in ChannelSamples, g \in ChannelSamples, b \in ChannelSamples,
        digits \in { LowerDigits, UpperDigits } }

PaletteColors ==
    { lightTheme.colors[role] : role \in DOMAIN lightTheme.colors }
    \cup { darkTheme.colors[role] : role \in DOMAIN darkTheme.colors }
    \cup { Hex("0", "0", "0", "0", "0", "0"), Hex("F", "F", "0", "0", "0", "0") }

Percents == -100..100

Alphas100 == 0..100

\* The shipped themes, and each with one role given another colour.
ThemeVariants ==
    { lightTheme, darkTheme }
    \cup { [ theme EXCEPT !.colors[role] = color ] :
             theme \in { lightTheme, darkTheme },
             role \in DOMAIN lightTheme.colors,
             color \in { Hex("0", "0", "0", "0", "0", "0"),
                         Hex("8", "0", "8", "0", "8", "0"),
                         Hex("F", "F", "F", "F", "F", "F") } }

Called(fn, args) == [ fn |-> fn, args |-> args, result |-> << >>, done |-> FALSE ]

InitUtils ==
    /\ systemColorScheme = "light"
    /\ mountScheme = systemColorScheme
    /\ isDark = IsDarkScheme(systemColorScheme)
    /\ isLoading = TRUE
    /\ contextValue = BuildContext(isDark, isLoading)
    /\ pc = "getItem"
    /\ storedPreference = Null
    /\ store = [ k \in StorageKeys |-> Null ]
    /\ writes = << >>
    /\ landed = << >>
    /\ warnings = << >>
    /\ getItemCalls = 1
    /\ toggleCalls = 0
    /\ mount = FirstMount
    /\ \/ \E hex \in SampleColors \cup PaletteColors, percent \in Percents :
             call = Called("adjustBrightness", << hex, percent >>)
       \/ \E hex \in PaletteColors, alpha100 \in Alphas100 :
             call = Called("addAlpha", << hex, alpha100 >>)
       \/ \E color1 \in PaletteColors, color2 \in PaletteColors :
             call = Called("getContrastRatio", << color1, color2 >>)
       \/ \E theme \in ThemeVariants :
             call = Called("validateThemeAccessibility", << theme >>)

Returned(result) == [ call EXCEPT !.result = result, !.done = TRUE ]

AdjustBrightnessCall ==
    /\ call.fn = "adjustBrightness"
    /\ ~call.done
    /\ call' = Returned(AdjustBrightness(call.args[1], call.args[2]))
    /\ UNCHANGED resolverVars

AddAlphaCall ==
    /\ call.fn = "addAlpha"
    /\ ~call.done
    /\ call' = Returned(AddAlpha(call.args[1], call.args[2]))
    /\ UNCHANGED resolverVars

GetContrastRatioCall ==
    /\ call.fn = "getContrastRatio"
    /\ ~call.done
    /\ call' = Returned(GetContrastRatio(call.args[1], call.args[2]))
    /\ UNCHANGED resolverVars

ValidateThemeAccessibilityCall ==
    /\ call.fn = "validateThemeAccessibility"
    /\ ~call.done
    /\ call' = Returned(ValidateThemeAccessibility(call.args[1]))
    /\ UNCHANGED resolverVars

NextUtils ==
    \/ AdjustBrightnessCall
    \/ AddAlphaCall
    \/ GetContrastRatioCall
    \/ ValidateThemeAccessibilityCall

SpecUtils == InitUtils /\ [][NextUtils]_vars

----------------------------------------------------------------------------
(* Shorthands used by the properties below *)

\* The seed of isDark: the platform signal at Start, dark -> true, else false.
Seed == IF mountScheme = "dark" THEN "true" ELSE "false"

\* No toggleTheme call so far.
NoToggleYet == toggleCalls = 0

\* The latest render has seen the current hook state.
Rendered == contextValue.isDark = isDark /\ contextValue.isLoading = isLoading

----------------------------------------------------------------------------
(* C1: in every reachable state the exposed theme is darkTheme when the    *)
(* exposed isDark is true and lightTheme otherwise.                        *)
C1_ThemeFollowsIsDark ==
    /\ contextValue.isDark = "true" => contextValue.theme = darkTheme
    /\ contextValue.isDark # "true" => contextValue.theme = lightTheme

\* Ready, after a load that adopted a dark record over a light seed, two
\* toggles and a failed write: the exposed theme is the dark one.
C1_Witness ==
    /\ ~contextValue.isLoading
    /\ mountScheme = "light"
    /\ Len(writes) = 2
    /\ \E i \in 1..Len(writes) : writes[i].status = "rejected"
    /\ contextValue.isDark = "true"
    /\ contextValue.theme = darkTheme

(* C2: provided the read returns, every execution reaches Ready and stays  *)
(* there, in the hooks and in the exposed context, whatever the read       *)
(* produced and whatever toggles were interleaved.                         *)
C2_EventuallyReady == <>[](~isLoading /\ ~contextValue.isLoading)

\* Ready is exposed after a rejected read that followed a toggle whose
\* write had already failed.
C2_Witness ==
    /\ ~contextValue.isLoading
    /\ storedPreference.kind = "rejected"
    /\ warnings = << "save", "load" >>

(* C3: record absent, read failed or parse failed, and no toggle so far:   *)
(* once the load is done the resolver is Ready and isDark is the seed      *)
(* taken at Start.                                                         *)
C3_FallbackIsSeed ==
    ( /\ pc = "done"
      /\ NoToggleYet
      /\ storedPreference.kind \in { "null", "empty", "rejected", "garbage", "jsonnull" } )
    => /\ ~isLoading
       /\ isDark = Seed
       /\ (~contextValue.isLoading => contextValue.isDark = Seed)

\* A stored text that is not JSON, a dark seed, and the platform signal has
\* since changed to light: Ready is exposed with isDark true.
C3_Witness ==
    /\ pc = "done"
    /\ NoToggleYet
    /\ storedPreference.kind = "garbage"
    /\ mountScheme = "dark"
    /\ systemColorScheme = "light"
    /\ ~contextValue.isLoading
    /\ contextValue.isDark = "true"

(* C4: when the load completes with no toggle before it and the read       *)
(* returned an object whose isDark is a boolean v, the resolver becomes    *)
(* Ready with isDark = v, whatever the seed.                               *)
C4_AdoptsStoredIsDark ==
    [][ ( /\ pc = "getItem"
          /\ pc' = "done"
          /\ NoToggleYet
          /\ storedPreference'.kind = "object"
          /\ storedPreference'.isDark \in { "true", "false" } )
        => /\ isDark' = storedPreference'.isDark
           /\ ~isLoading' ]_vars

\* A light record with extra fields overrode a dark seed.
C4_Witness ==
    /\ pc = "done"
    /\ NoToggleYet
    /\ storedPreference = Stored("object", "false", 0, TRUE)
    /\ mountScheme = "dark"
    /\ isDark = "false"
    /\ ~isLoading

(* C5: a stored JSON object without isDark is treated as a parse failure:  *)
(* with no toggle, Ready has isDark equal to the seed; and isDark is       *)
(* always a boolean.                                                       *)
C5_MissingIsDarkFallsBack ==
    /\ isDark \in { "true", "false" }
    /\ ( /\ pc = "done"
         /\ NoToggleYet
         /\ storedPreference.kind = "object"
         /\ storedPreference.isDark = "absent" )
       => isDark = Seed

(* C6: every toggleTheme call negates the in-memory isDark at once, so     *)
(* that k successive toggles with no load completion in between leave it   *)
(* at its starting value for even k and at the negation for odd k.  Stated *)
(* for the toggles made from Start while the load has not completed: the   *)
(* starting value is the seed.                                             *)
C6_TogglesFlipByParity ==
    pc = "getItem" =>
        isDark = (IF toggleCalls % 2 = 0 THEN Seed
                  ELSE IF Seed = "true" THEN "false" ELSE "true")

(* C7: every toggle issues exactly one write, left pending, under the      *)
(* fixed key and carrying the isDark that toggle has just set; no other    *)
(* step issues, merges or drops a write, so n toggles have issued n writes.*)
C7_OneWritePerToggle ==
    [][ /\ Len(writes') = toggleCalls'
        /\ \A i \in 1..Len(writes) :
              /\ writes'[i].key = writes[i].key
              /\ writes'[i].value = writes[i].value
        /\ toggleCalls' = toggleCalls + 1 =>
              /\ Len(writes') = Len(writes) + 1
              /\ writes'[Len(writes')].key = "@scanzy_theme_preference"
              /\ writes'[Len(writes')].value.kind = "object"
              /\ writes'[Len(writes')].value.isDark = isDark'
              /\ writes'[Len(writes')].status = "pending"
        /\ toggleCalls' = toggleCalls => Len(writes') = Len(writes) ]_vars

\* Fresh install, platform default dark, Ready, then one toggle: one write
\* with isDark false has been issued.
C7_Witness ==
    /\ mountScheme = "dark"
    /\ storedPreference = Null
    /\ pc = "done"
    /\ ~contextValue.isLoading
    /\ toggleCalls = 1
    /\ isDark = "false"
    /\ Len(writes) = 1
    /\ writes[1].value.isDark = "false"

\* Some pending write fails in this step.
WriteFails ==
    \E i \in 1..Len(writes) : writes[i].status = "pending" /\ writes'[i].status = "rejected"

(* C8: a failed write leaves the in-memory isDark (no rollback), isLoading *)
(* and the exposed context as they were, issues no further write or read,  *)
(* and leaves the store unchanged; the failure is only logged.             *)
C8_WriteFailureIgnored ==
    [][ WriteFails =>
          /\ isDark' = isDark
          /\ isLoading' = isLoading
          /\ contextValue' = contextValue
          /\ Len(writes') = Len(writes)
          /\ getItemCalls' = getItemCalls
          /\ store' = store
          /\ warnings' = Append(warnings, "save") ]_vars

\* Ready on a fresh install; the one toggle's write failed: memory keeps the
\* toggled value and the store still has no record.
C8_Witness ==
    /\ pc = "done"
    /\ storedPreference = Null
    /\ toggleCalls = 1
    /\ writes[1].status = "rejected"
    /\ isDark = (IF mountScheme = "dark" THEN "false" ELSE "true")
    /\ contextValue.isDark = isDark
    /\ store["@scanzy_theme_preference"] = Null

(* C9: the store holds what the write that landed last carried, whatever   *)
(* the order of the toggles; the race in which all writes succeed and the  *)
(* persisted isDark differs from the in-memory isDark is reachable         *)
(* (C9_Witness).                                                           *)
C9_LastLandedWriteWins ==
    landed # << >> =>
        store["@scanzy_theme_preference"] = writes[landed[Len(landed)]].value

\* Two toggles, each rendered, both writes applied in the reverse order:
\* the persisted isDark is not the in-memory isDark.
C9_Witness ==
    /\ toggleCalls = 2
    /\ landed = << 2, 1 >>
    /\ \A i \in 1..Len(writes) : writes[i].status = "resolved"
    /\ Rendered
    /\ pc = "done"
    /\ writes[1].value.isDark # writes[2].value.isDark
    /\ writes[2].value.isDark = isDark
    /\ store["@scanzy_theme_preference"].isDark # isDark

(* C10: isLoading is true from Start exactly until the load completes, and *)
(* once false it is never true again, whatever toggles or write outcomes   *)
(* follow.                                                                 *)
C10_LoadingFallsOnce ==
    /\ isLoading = TRUE
    /\ [][ /\ (isLoading' <=> pc' = "getItem")
           /\ (~isLoading => ~isLoading') ]_vars

\* Ready, after toggles of which one write landed and one failed.
C10_Witness ==
    /\ ~isLoading
    /\ ~contextValue.isLoading
    /\ toggleCalls >= 2
    /\ \E i \in 1..Len(writes) : writes[i].status = "resolved"
    /\ \E i \in 1..Len(writes) : writes[i].status = "rejected"

(* C11: a resolver instance issues exactly one read of the store, at       *)
(* Start: no read failure, parse failure, toggle or write completion       *)
(* issues another.                                                         *)
C11_OneReadPerInstance ==
    /\ getItemCalls = mount.count
    /\ [][ getItemCalls' = getItemCalls ]_vars

\* Ready after a rejected read, a toggle and a landed write: still one read.
C11_Witness ==
    /\ pc = "done"
    /\ storedPreference.kind = "rejected"
    /\ toggleCalls >= 1
    /\ landed # << >>
    /\ getItemCalls = 1

(* C12, as claimed: once the resolver is Ready after a load that found no  *)
(* record, the store holds a record whose isDark is the seeded value, even *)
(* with no toggle.                                                         *)
C12_RecordCreatedOnLoad ==
    ( pc = "done" /\ ~isLoading /\ storedPreference = Null )
    => /\ store["@scanzy_theme_preference"].kind = "object"
       /\ store["@scanzy_theme_preference"].isDark = Seed

(* C12, amended: a record is created in the store only by a toggle's write *)
(* landing; a load that finds no record writes nothing, so once Ready      *)
(* after such a load and with no toggle made, the store still holds no     *)
(* record.                                                                 *)
C12_RecordOnlyByToggle ==
    /\ []( ( pc = "done" /\ storedPreference = Null /\ NoToggleYet )
           => ( store["@scanzy_theme_preference"] = Null /\ writes = << >> ) )
    /\ [][ store' # store =>
             \E i \in 1..Len(writes) :
                /\ writes[i].status = "pending"
                /\ writes'[i].status = "resolved"
                /\ store' = [ store EXCEPT !["@scanzy_theme_preference"] = writes[i].value ] ]_vars

\* Ready is exposed on a fresh install with a dark seed and no toggle: the
\* store has no record.
C12_Witness ==
    /\ pc = "done"
    /\ storedPreference = Null
    /\ NoToggleYet
    /\ ~contextValue.isLoading
    /\ contextValue.isDark = "true"
    /\ store["@scanzy_theme_preference"] = Null

(* C13: two toggles, each write landing before the next toggle, then a new *)
(* resolver instance: the store holds the second toggle's record, and the  *)
(* new instance, whose read returns, becomes Ready with that record's      *)
(* isDark, whatever its seed.                                              *)
C13_LastValueSurvivesRestart ==
    ( /\ mount.count = 2
      /\ mount.toggleCalls = 2
      /\ mount.landed = 2
      /\ landed = << 1, 2 >>
      /\ toggleCalls = 2 )
    => /\ store["@scanzy_theme_preference"] = writes[2].value
       /\ store["@scanzy_theme_preference"].lastUpdated = 2
       /\ ( pc = "done" /\ storedPreference.kind # "rejected" )
          => ( ~isLoading /\ isDark = writes[2].value.isDark )

\* The second instance, seeded dark, is Ready with the light value the
\* second toggle of the first instance persisted.
C13_Witness ==
    /\ mount = [ count |-> 2, toggleCalls |-> 2, landed |-> 2 ]
    /\ landed = << 1, 2 >>
    /\ toggleCalls = 2
    /\ writes[1].value.isDark = "true"
    /\ writes[2].value.isDark = "false"
    /\ mountScheme = "dark"
    /\ pc = "done"
    /\ ~contextValue.isLoading
    /\ contextValue.isDark = "false"

----------------------------------------------------------------------------
(* Shorthands for the ThemeUtils properties *)

\* The call of fn has returned.
HasReturned(fn) == call.fn = fn /\ call.done

\* text is "#" followed by six hex digits.
IsHexTriplet(text) ==
    /\ Len(text) = 7
    /\ text[1] = "#"
    /\ \A k \in 2..7 : \E i \in 1..16 : text[k] = LowerDigits[i] \/ text[k] = UpperDigits[i]

\* Channel k (1 red, 2 green, 3 blue) of a hex triplet, read from its two digits.
Channel(text, k) == 16 * DigitValue(text[2 * k]) + DigitValue(text[2 * k + 1])

(* C14: for every hex triplet and every integer percent in [-100, 100],    *)
(* adjustBrightness returns a hex triplet whose channels are each, on its  *)
(* own, min(255, max(0, channel + round(2.55 x percent))).                 *)
C14_ChannelsShiftedByRound ==
    HasReturned("adjustBrightness") =>
        LET hex == call.args[1]
            amt == (510 * call.args[2] + 100) \div 200
            result == call.result
        IN  /\ IsHexTriplet(result)
            /\ \A k \in 1..3 :
                  LET v == Channel(hex, k) + amt
                  IN  Channel(result, k)
                        = (IF v > 255 THEN 255 ELSE IF v < 0 THEN 0 ELSE v)

(* C15: adjustBrightness(c, 0) is the string c, for every hex triplet c.   *)
C15_ZeroAdjustmentIsIdentity ==
    ( HasReturned("adjustBrightness") /\ call.args[2] = 0 ) => call.result = call.args[1]

(* C16: addAlpha returns the colour unchanged followed by exactly two      *)
(* upper-case hex digits, zero-padded, encoding round(alpha x 255): "00"   *)
(* at alpha 0, "FF" at alpha 1, "#FF000080" for ("#FF0000", 0.5).          *)
C16_AlphaSuffix ==
    HasReturned("addAlpha") =>
        LET hex == call.args[1]
            alpha100 == call.args[2]
            result == call.result
        IN  /\ Len(result) = Len(hex) + 2
            /\ SubSeq(result, 1, Len(hex)) = hex
            /\ \A k \in { Len(hex) + 1, Len(hex) + 2 } :
                  \E i \in 1..16 : result[k] = UpperDigits[i]
            /\ 16 * DigitValue(result[Len(hex) + 1]) + DigitValue(result[Len(hex) + 2])
                  = (510 * alpha100 + 100) \div 200
            /\ alpha100 = 0 => SubSeq(result, Len(hex) + 1, Len(hex) + 2) = << "0", "0" >>
            /\ alpha100 = 100 => SubSeq(result, Len(hex) + 1, Len(hex) + 2) = << "F", "F" >>
            /\ ( hex = Hex("F", "F", "0", "0", "0", "0") /\ alpha100 = 50 )
                  => result = << "#", "F", "F", "0", "0", "0", "0", "8", "0" >>

\* Alpha 0.05 on the light primary: the suffix is the padded "0D".
C16_Witness ==
    /\ HasReturned("addAlpha")
    /\ call.args = << Hex("3", "F", "5", "1", "B", "5"), 5 >>
    /\ call.result = << "#", "3", "F", "5", "1", "B", "5", "0", "D" >>

(* C17: validate(theme) reports one boolean for each of exactly five pairs *)
(* (text/background, text/surface, primary/background, accent/background,  *)
(* textSecondary/background), each true iff that pair's ratio is at least  *)
(* 4.5, and allValid iff all five are true; the report is a function of    *)
(* those six roles alone.                                                  *)
C17_ValidateFivePairs ==
    HasReturned("validateThemeAccessibility") =>
        LET colors == call.args[1].colors
            report == call.result
            AtLeast45(fg, bg) ==
                LET ratio == GetContrastRatio(fg, bg) IN 2 * ratio.num >= 9 * ratio.den
        IN  /\ DOMAIN report = { "textOnBackground", "textOnSurface", "primaryOnBackground",
                                 "accentOnBackground", "textSecondaryOnBackground",
                                 "allValid" }
            /\ report.textOnBackground = AtLeast45(colors.text, colors.background)
            /\ report.textOnSurface = AtLeast45(colors.text, colors.surface)
            /\ report.primaryOnBackground = AtLeast45(colors.primary, colors.background)
            /\ report.accentOnBackground = AtLeast45(colors.accent, colors.background)
            /\ report.textSecondaryOnBackground
                  = AtLeast45(colors.textSecondary, colors.background)
            /\ report.allValid = ( /\ report.textOnBackground
                                   /\ report.textOnSurface
                                   /\ report.primaryOnBackground
                                   /\ report.accentOnBackground
                                   /\ report.textSecondaryOnBackground )

\* The light theme with white secondary text: that pair alone fails, and
\* allValid is false.
C17_Witness ==
    /\ HasReturned("validateThemeAccessibility")
    /\ call.args[1] = [ lightTheme EXCEPT
                          !.colors.textSecondary = Hex("F", "F", "F", "F", "F", "F") ]
    /\ call.result.textOnBackground
    /\ call.result.textOnSurface
    /\ call.result.primaryOnBackground
    /\ call.result.accentOnBackground
    /\ ~call.result.textSecondaryOnBackground
    /\ ~call.result.allValid

(* C18: both shipped themes pass the validation: allValid is true and each *)
(* of the five checked pairs has a contrast ratio of at least 4.5.         *)
C18_ShippedThemesPass ==
    ( HasReturned("validateThemeAccessibility") /\ call.args[1] \in { lightTheme, darkTheme } )
    => /\ call.result.allValid
       /\ LET colors == call.args[1].colors
              AtLeast45(fg, bg) ==
                  LET ratio == GetContrastRatio(fg, bg) IN 2 * ratio.num >= 9 * ratio.den
          IN  /\ AtLeast45(colors.text, colors.background)
              /\ AtLeast45(colors.text, colors.surface)
              /\ AtLeast45(colors.primary, colors.background)
              /\ AtLeast45(colors.accent, colors.background)
              /\ AtLeast45(colors.textSecondary, colors.background)

\* The dark theme has been validated and passes.
C18_Witness ==
    /\ HasReturned("validateThemeAccessibility")
    /\ call.args[1] = darkTheme
    /\ call.result.allValid

(* C19: contrastRatio is symmetric and never below 1: the result is        *)
(* (Lmax + 0.05) / (Lmin + 0.05) whichever argument is brighter, and it is *)
(* 1 when both arguments are the same colour.                              *)
C19_ContrastSymmetric ==
    HasReturned("getContrastRatio") =>
        LET a == call.args[1]
            b == call.args[2]
            ratio == call.result
        IN  /\ ratio = GetContrastRatio(b, a)
            /\ ratio.num >= ratio.den
            /\ ratio.den > 0
            /\ ratio.num = (IF GetLuminance(a) >= GetLuminance(b)
                            THEN GetLuminance(a) ELSE GetLuminance(b)) + 5000000
            /\ ratio.den = (IF GetLuminance(a) >= GetLuminance(b)
                            THEN GetLuminance(b) ELSE GetLuminance(a)) + 5000000
            /\ a = b => ratio.num = ratio.den

\* The darker colour first: black against white gives 21.
C19_Witness ==
    /\ HasReturned("getContrastRatio")
    /\ call.args = << Hex("0", "0", "0", "0", "0", "0"), Hex("F", "F", "F", "F", "F", "F") >>
    /\ call.result.num = 21 * call.result.den

(* C20: a toggle made while the load is in flight is not lost: when the    *)
(* load completes, the in-memory isDark still is what that toggle set.     *)
C20_ToggleDuringLoadKept ==
    [][ ( pc = "getItem" /\ pc' = "done" /\ toggleCalls > 0 ) => isDark' = isDark ]_vars

(* C21: the platform signal only seeds isDark at Start: a later change of  *)
(* the signal, during Loading or in Ready, changes neither isDark nor      *)
(* isLoading, issues no write or read and leaves the store alone; and a    *)
(* load that finds no usable record, or fails, adopts the seed of the      *)
(* signal as observed at Start, whatever the signal is by then.            *)
C21_SignalOnlySeeds ==
    [][ /\ systemColorScheme' # systemColorScheme =>
              /\ isDark' = isDark
              /\ isLoading' = isLoading
              /\ contextValue' = contextValue
              /\ writes' = writes
              /\ store' = store
              /\ getItemCalls' = getItemCalls
        /\ ( pc = "getItem" /\ pc' = "done" /\ storedPreference'.kind # "object" ) =>
              isDark' = Seed
      ]_vars

\* The signal was dark at Start and is light now; the read was rejected and
\* no toggle was made: isDark is the seed true, not what the signal says now.
C21_Witness ==
    /\ pc = "done"
    /\ mountScheme = "dark"
    /\ systemColorScheme = "light"
    /\ storedPreference.kind = "rejected"
    /\ NoToggleYet
    /\ isDark = "true"
    /\ isDark # IsDarkScheme(systemColorScheme)
    /\ writes = << >>

====
